---- MODULE Spec2Model ----
(***************************************************************************)
(* A model of lc3-disassembler.py: the bit-field helpers, the instruction  *)
(* decoder decode_instruction, and the driver disassemble (decode loop,    *)
(* label table, render loop).                                              *)
(*                                                                         *)
(* A bit string is a sequence over {0,1}, most significant bit first; the  *)
(* Python slice i[a:b] is Slice(i, a, b).  A Python value that may be None *)
(* (Asm.location, Asm.label) is the empty tuple for None and <<v>> for the *)
(* value v.  Asm.operands is a sequence of strings, None being <<>> (the   *)
(* code only ever tests its truthiness).                                   *)
(***************************************************************************)
EXTENDS Integers, Sequences, FiniteSets, TLC

\* Largest address the decoder is applied at in SpecDec.
MaxAddr == 5
\* Largest number of words of an input program in Spec.
MaxWords == 3

Bit == {0, 1}
None == <<>>
Some(v) == <<v>>

\* Python truthiness of an optional integer: None and 0 are falsy.
Truthy(x) == x # None /\ x[1] # 0

\* i[a:b] of a string (0-based, end exclusive), clipped as Python clips it.
Slice(i, a, b) == SubSeq(i, a + 1, IF b > Len(i) THEN Len(i) ELSE b)

RECURSIVE BinVal(_)
\* int(bits, 2)
BinVal(bits) ==
    IF Len(bits) = 0 THEN 0
    ELSE 2 * BinVal(SubSeq(bits, 1, Len(bits) - 1)) + bits[Len(bits)]

HexDigit == <<"0", "1", "2", "3", "4", "5", "6", "7",
              "8", "9", "a", "b", "c", "d", "e", "f">>

RECURSIVE HexStr(_)
\* hex(v) without its "0x" prefix, v >= 0
HexStr(v) ==
    IF v < 16 THEN HexDigit[v + 1]
    ELSE HexStr(v \div 16) \o HexDigit[(v % 16) + 1]

\* Mutant of parse_2scompl: the wrap-around uses 2^(len-1).
parse_2scompl_halfwrap(bits) ==
    IF bits[1] = 1 THEN -(2 ^ (Len(bits) - 1) - BinVal(bits)) ELSE BinVal(bits)

parse_2scompl(bits) ==
    IF bits[1] = 1 THEN -(2 ^ Len(bits) - BinVal(bits)) ELSE BinVal(bits)

\* hex(int(x, 2))[1:]
decode_hex(x) == "x" \o HexStr(BinVal(x))

decode_int(bits) == "#" \o ToString(parse_2scompl(bits))

decode_reg(bits) == "R" \o ToString(BinVal(bits))

decode_conditions(bits) ==
    (IF bits[1] = 1 THEN "n" ELSE "")
        \o (IF bits[2] = 1 THEN "z" ELSE "")
        \o (IF bits[3] = 1 THEN "p" ELSE "")

decode_pcoffset(n, bits) == n + parse_2scompl(bits) + 1

\* class Asm: the record Asm.__init__ builds.
Asm(location, opcode, operands, label) ==
    [location |-> location, opcode |-> opcode, operands |-> operands, label |-> label]

\* Outcomes of a call: a returned record, exit() after a printed message, or
\* an uncaught TypeError raised by a call that passes too few arguments.
Returned(asm) == [kind |-> "ok", asm |-> asm]
Exited(msg, n, i) == [kind |-> "exit", msg |-> msg, location |-> n, word |-> i]
TypeError(callee) == [kind |-> "TypeError", callee |-> callee]

\* Mutant of InvalidOpcode: the default case returns a record.
InvalidOpcode_record(n, i) == Returned(Asm(Some(n), "RES", <<>>, None))

\* case _: print("Invalid opcode or instruction ..."); exit()
InvalidOpcode(n, i) == Exited("Invalid opcode or instruction", n, i)

\* The trap-vector shorthand of the inner match; "" when there is none.
TrapShorthand(trapvec) ==
    CASE trapvec = "x20" -> "GETC"
      [] trapvec = "x21" -> "OUT"
      [] trapvec = "x22" -> "PUTS"
      [] trapvec = "x23" -> "IN"
      [] trapvec = "x24" -> "PUTSP"
      [] trapvec = "x25" -> "HALT"
      [] OTHER -> ""

decode_instruction(n, i) ==
    IF Len(i) # 16 THEN Exited("Invalid instruction length", n, i)
    ELSE LET op == Slice(i, 0, 4)
             r1 == decode_reg(Slice(i, 4, 7))
             r2 == decode_reg(Slice(i, 7, 10))
             off9 == Some(decode_pcoffset(n, Slice(i, 7, 16)))
         IN
         CASE op = <<0,0,0,1>> ->
                IF i[11] = 1
                THEN Returned(Asm(Some(n), "ADD", <<r1, r2, decode_int(Slice(i, 11, 16))>>, None))
                ELSE Returned(Asm(Some(n), "ADD", <<r1, r2, decode_reg(Slice(i, 13, 16))>>, None))
           [] op = <<0,1,0,1>> ->
                IF i[11] = 1
                THEN Returned(Asm(Some(n), "AND", <<r1, r2, decode_int(Slice(i, 11, 16))>>, None))
                ELSE Returned(Asm(Some(n), "AND", <<r1, r2, decode_reg(Slice(i, 13, 16))>>, None))
           [] op = <<1,0,0,1>> -> Returned(Asm(Some(n), "NOT", <<r1, r2>>, None))
           [] op = <<0,0,0,0>> ->
                Returned(Asm(Some(n), "BR" \o decode_conditions(Slice(i, 4, 7)), <<>>, off9))
           [] op = <<1,1,0,0>> ->
                IF r2 = "R7" THEN Returned(Asm(Some(n), "RET", <<>>, None))
                ELSE Returned(Asm(Some(n), "JMP", <<r2>>, None))
           [] op = <<0,1,0,0>> ->
                IF i[5] = 1
                THEN Returned(Asm(Some(n), "JSR", <<>>,
                                  Some(decode_pcoffset(n, Slice(i, 5, 16)))))
                ELSE Returned(Asm(Some(n), "JSRR", <<r2>>, None))
           \* Asm('RTI'): the required parameter opcode is missing.
           [] op = <<1,0,0,0>> -> TypeError("Asm.__init__")
           [] op = <<1,1,1,0>> -> Returned(Asm(Some(n), "LEA", <<r1>>, off9))
           [] op = <<0,0,1,0>> -> Returned(Asm(Some(n), "LD", <<r1>>, off9))
           [] op = <<1,0,1,0>> -> Returned(Asm(Some(n), "LDI", <<r1>>, off9))
           \* decode_pcoffset(i[10:16]): the required parameter bits is missing.
           [] op = <<0,1,1,0>> -> TypeError("decode_pcoffset")
           [] op = <<0,0,1,1>> -> Returned(Asm(Some(n), "ST", <<r1>>, off9))
           [] op = <<1,0,1,1>> -> Returned(Asm(Some(n), "STI", <<r1>>, off9))
           [] op = <<0,1,1,1>> -> TypeError("decode_pcoffset")
           [] op = <<1,1,1,1>> ->
                LET trapvec == decode_hex(Slice(i, 8, 16))
                    shorthand == TrapShorthand(trapvec)
                IN IF shorthand # "" THEN Returned(Asm(Some(n), shorthand, <<>>, None))
                   ELSE Returned(Asm(Some(n), "TRAP", <<trapvec>>, None))
           [] OTHER -> InvalidOpcode(n, i)

\* Mutant of fill_instruction: only the high byte is rendered.
fill_instruction_truncated(n, i) == Asm(Some(n), ".FILL", <<decode_hex(Slice(i, 0, 8))>>, None)

fill_instruction(n, i) == Asm(Some(n), ".FILL", <<decode_hex(i)>>, None)

\* Mutant of CollectLabel: only positive targets are collected.
CollectLabel_positive(labels, asm) ==
    IF asm.label # None /\ asm.label[1] > 0 THEN labels \cup {asm.label[1]} ELSE labels

\* if asm.label: labels.add(asm.label)
CollectLabel(labels, asm) ==
    IF Truthy(asm.label) THEN labels \cup {asm.label[1]} ELSE labels

RECURSIVE SortedDesc(_)
\* Mutant of Sorted: descending order.
SortedDesc(S) ==
    IF S = {} THEN <<>>
    ELSE LET m == CHOOSE x \in S : \A y \in S : y <= x
         IN <<m>> \o SortedDesc(S \ {m})

RECURSIVE Sorted(_)
\* sorted(list(S))
Sorted(S) ==
    IF S = {} THEN <<>>
    ELSE LET m == CHOOSE x \in S : \A y \in S : x <= y
         IN <<m>> \o Sorted(S \ {m})

\* label_names after the loop "for l in sorted(list(labels))".
BuildLabelNames(labels) ==
    LET order == Sorted(labels)
    IN [l \in labels |->
          "LABEL" \o ToString((CHOOSE j \in 1..Len(order) : order[j] = l) - 1)]

RECURSIVE Ljust(_, _)
\* str.ljust(w)
Ljust(s, w) == IF Len(s) >= w THEN s ELSE Ljust(s \o " ", w)

RECURSIVE Join(_)
\* ', '.join(params)
Join(params) ==
    IF Len(params) = 0 THEN ""
    ELSE IF Len(params) = 1 THEN params[1]
    ELSE params[1] \o ", " \o Join(Tail(params))

\* "asm.location in label_names"
HasLabelName(asm, names) == asm.location # None /\ asm.location[1] \in DOMAIN names

\* The first print of the render loop: the label column.
LabelColumn(asm, names) ==
    IF HasLabelName(asm, names) THEN Ljust(names[asm.location[1]], 8) ELSE Ljust("", 8)

\* The render loop's lookup label_names[asm.label] raises KeyError.
LookupFails(asm, names) == Truthy(asm.label) /\ asm.label[1] \notin DOMAIN names

\* params of the render loop, when the lookup succeeds.
RenderParams(asm, names) ==
    asm.operands \o (IF Truthy(asm.label) THEN <<names[asm.label[1]]>> ELSE <<>>)

\* One printed line of the render loop.
RenderedLine(asm, names) ==
    LET params == RenderParams(asm, names)
    IN [kind |-> "line",
        label |-> IF HasLabelName(asm, names) THEN names[asm.location[1]] ELSE "",
        opcode |-> asm.opcode,
        params |-> params,
        text |-> LabelColumn(asm, names) \o Ljust(asm.opcode, 6)
                   \o (IF Len(params) > 0 THEN "  " \o Join(params) ELSE "")]

\* What is on the output when the lookup raises: the two columns already printed.
PartialLine(asm, names) ==
    [kind |-> "partial", label |-> "", opcode |-> asm.opcode, params |-> <<>>,
     text |-> LabelColumn(asm, names) \o Ljust(asm.opcode, 6)]

\* The message decode_instruction prints before exit().
ErrorLine(r) ==
    [kind |-> "error", label |-> "", opcode |-> "", params |-> <<>>, text |-> r.msg]

VARIABLES dn, dword, dres,
          instructions, auto_fill, pc, n, after_halt, asm_lines, labels,
          label_names, k, out, err, decoded

dvars == <<dn, dword, dres>>
pvars == <<instructions, auto_fill, pc, n, after_halt, asm_lines, labels,
           label_names, k, out, err, decoded>>
vars == <<dn, dword, dres, instructions, auto_fill, pc, n, after_halt, asm_lines,
          labels, label_names, k, out, err, decoded>>

NoNames == [l \in {} |-> ""]

\* The driver's variables while only the decoder is exercised.
DriverIdle ==
    /\ instructions = <<>> /\ auto_fill = FALSE /\ pc = "idle" /\ n = 0
    /\ after_halt = FALSE /\ asm_lines = <<>> /\ labels = {}
    /\ label_names = NoNames /\ k = 0 /\ out = <<>> /\ err = "none" /\ decoded = {}

\* The decoder's variables while the driver runs.
DecoderIdle == dn = 0 /\ dword = <<>> /\ dres = [kind |-> "idle"]

\* The words handed to the decoder: every 16-bit word, and the 15-bit and
\* 17-bit words of one repeated bit.
DecWords ==
    [1..16 -> Bit] \cup {[j \in 1..15 |-> b] : b \in Bit} \cup {[j \in 1..17 |-> b] : b \in Bit}

InitDec ==
    /\ dn \in 0..MaxAddr
    /\ dword \in DecWords
    /\ dres = [kind |-> "pending"]
    /\ DriverIdle

\* One call decode_instruction(dn, dword).
DecodeCall ==
    /\ dres.kind = "pending"
    /\ dres' = decode_instruction(dn, dword)
    /\ UNCHANGED <<dn, dword>>
    /\ UNCHANGED pvars

NextDec == DecodeCall

SpecDec == InitDec /\ [][NextDec]_vars

\* The words of the input programs.
ADD_R1_R2_1 == <<0,0,0,1, 0,0,1, 0,1,0, 1, 0,0,0,0,1>>
HALT_WORD   == <<1,1,1,1, 0,0,0,0, 0,0,1,0,0,1,0,1>>
BR_BACK2    == <<0,0,0,0, 1,1,1, 1,1,1,1,1,1,1,1,0>>
LD_BACK1    == <<0,0,1,0, 0,0,0, 1,1,1,1,1,1,1,1,1>>
BRZ_FWD1    == <<0,0,0,0, 0,1,0, 0,0,0,0,0,0,0,0,1>>
JSR_NEXT    == <<0,1,0,0, 1, 0,0,0,0,0,0,0,0,0,0,0>>
RESERVED    == <<1,1,0,1, 0,0,0,0,0,0,0,0,0,0,0,0>>
RTI_WORD    == <<1,0,0,0, 0,0,0,0,0,0,0,0,0,0,0,0>>
LDR_WORD    == <<0,1,1,0, 0,0,1, 0,1,0, 0,0,0,0,1,1>>
SHORT_WORD  == <<1,1,1,1, 0,0,0,0, 0,0,1,0,0,1,0>>

ProgWords ==
    {ADD_R1_R2_1, HALT_WORD, BR_BACK2, LD_BACK1, BRZ_FWD1, JSR_NEXT, RESERVED,
     RTI_WORD, LDR_WORD, SHORT_WORD}

\* The state on entry to the first loop of disassemble: the list read from the
\* input, the flag, and asm_lines holding the .ORIG record.
Init ==
    /\ instructions \in UNION {[1..len -> ProgWords] : len \in 0..MaxWords}
    /\ auto_fill \in BOOLEAN
    /\ pc = "decode"
    /\ n = 0
    /\ after_halt = FALSE
    /\ asm_lines = <<Asm(None, ".ORIG", <<"x3000">>, None)>>
    /\ labels = {}
    /\ label_names = NoNames
    /\ k = 0
    /\ out = <<>>
    /\ err = "none"
    /\ decoded = {}
    /\ DecoderIdle

\* A loop iteration with after_halt false whose decode returns a record.
DecodeWord ==
    /\ pc = "decode" /\ n < Len(instructions) /\ ~after_halt
    /\ LET r == decode_instruction(n, instructions[n + 1])
       IN /\ r.kind = "ok"
          /\ labels' = CollectLabel(labels, r.asm)
          /\ asm_lines' = Append(asm_lines, r.asm)
          /\ after_halt' = (r.asm.opcode = "HALT" /\ auto_fill)
    /\ n' = n + 1
    /\ decoded' = decoded \cup {n}
    /\ UNCHANGED <<instructions, auto_fill, pc, label_names, k, out, err>>
    /\ UNCHANGED dvars

\* Mutant of DecodeFail: the failing word is reported and skipped.
DecodeFail_skip ==
    /\ pc = "decode" /\ n < Len(instructions) /\ ~after_halt
    /\ LET r == decode_instruction(n, instructions[n + 1])
       IN /\ r.kind # "ok"
          /\ err' = (IF r.kind = "exit" THEN "SystemExit" ELSE r.kind)
          /\ out' = (IF r.kind = "exit" THEN Append(out, ErrorLine(r)) ELSE out)
    /\ n' = n + 1
    /\ decoded' = decoded \cup {n}
    /\ UNCHANGED <<instructions, auto_fill, pc, after_halt, asm_lines, labels,
                   label_names, k>>
    /\ UNCHANGED dvars

\* A loop iteration with after_halt false whose decode does not return: exit()
\* after the printed message, or an uncaught TypeError; the process ends.
DecodeFail ==
    /\ pc = "decode" /\ n < Len(instructions) /\ ~after_halt
    /\ LET r == decode_instruction(n, instructions[n + 1])
       IN /\ r.kind # "ok"
          /\ err' = (IF r.kind = "exit" THEN "SystemExit" ELSE r.kind)
          /\ out' = (IF r.kind = "exit" THEN Append(out, ErrorLine(r)) ELSE out)
    /\ pc' = "aborted"
    /\ decoded' = decoded \cup {n}
    /\ UNCHANGED <<instructions, auto_fill, n, after_halt, asm_lines, labels,
                   label_names, k>>
    /\ UNCHANGED dvars

\* A loop iteration with after_halt true.
FillWord ==
    /\ pc = "decode" /\ n < Len(instructions) /\ after_halt
    /\ asm_lines' = Append(asm_lines, fill_instruction(n, instructions[n + 1]))
    /\ n' = n + 1
    /\ UNCHANGED <<instructions, auto_fill, pc, after_halt, labels, label_names,
                   k, out, err, decoded>>
    /\ UNCHANGED dvars

\* Mutant of BuildLabels: the .END record is not appended.
BuildLabels_noEnd ==
    /\ pc = "decode" /\ n = Len(instructions)
    /\ label_names' = BuildLabelNames(labels)
    /\ pc' = "render"
    /\ k' = 1
    /\ UNCHANGED <<instructions, auto_fill, n, after_halt, asm_lines, labels, out,
                   err, decoded>>
    /\ UNCHANGED dvars

\* After the loop: the .END record and the label table.
BuildLabels ==
    /\ pc = "decode" /\ n = Len(instructions)
    /\ asm_lines' = Append(asm_lines, Asm(None, ".END", <<>>, None))
    /\ label_names' = BuildLabelNames(labels)
    /\ pc' = "render"
    /\ k' = 1
    /\ UNCHANGED <<instructions, auto_fill, n, after_halt, labels, out, err, decoded>>
    /\ UNCHANGED dvars

\* One iteration of the render loop, on asm_lines[k].
RenderLine ==
    /\ pc = "render" /\ k <= Len(asm_lines)
    /\ LET asm == asm_lines[k]
       IN IF LookupFails(asm, label_names)
          THEN /\ out' = Append(out, PartialLine(asm, label_names))
               /\ err' = "KeyError"
               /\ pc' = "aborted"
               /\ k' = k
          ELSE /\ out' = Append(out, RenderedLine(asm, label_names))
               /\ err' = err
               /\ pc' = (IF k = Len(asm_lines) THEN "done" ELSE "render")
               /\ k' = k + 1
    /\ UNCHANGED <<instructions, auto_fill, n, after_halt, asm_lines, labels,
                   label_names, decoded>>
    /\ UNCHANGED dvars

Next == DecodeWord \/ DecodeFail \/ FillWord \/ BuildLabels \/ RenderLine

Spec == Init /\ [][Next]_vars

(***************************************************************************)
(* Properties of decode_instruction, checked under SpecDec.                *)
(***************************************************************************)

\* The call of SpecDec has been made.
Decoded == dres.kind \in {"ok", "exit", "TypeError"}

OpcodeField(w) == Slice(w, 0, 4)

\* The 15 opcodes of the opcode table.
TableOpcodes ==
    {<<0,0,0,1>>, <<0,1,0,1>>, <<1,0,0,1>>, <<0,0,0,0>>, <<1,1,0,0>>, <<0,1,0,0>>,
     <<1,0,0,0>>, <<1,1,1,0>>, <<0,0,1,0>>, <<1,0,1,0>>, <<0,1,1,0>>, <<0,0,1,1>>,
     <<1,0,1,1>>, <<0,1,1,1>>, <<1,1,1,1>>}

Mnemonics ==
    {"ADD", "AND", "NOT", "BR", "BRn", "BRz", "BRp", "BRnz", "BRnp", "BRzp", "BRnzp",
     "RET", "JMP", "JSR", "JSRR", "RTI", "LEA", "LD", "LDI", "LDR", "ST", "STI",
     "STR", "TRAP", "GETC", "OUT", "PUTS", "IN", "PUTSP", "HALT"}

\* C1: for every 16-bit word whose opcode field is one of the 15 table opcodes,
\* at every address, decode_instruction returns a record whose mnemonic is in
\* the fixed mnemonic set, and never fails.
C1_DecodeTotal ==
    (Decoded /\ Len(dword) = 16 /\ OpcodeField(dword) \in TableOpcodes)
        => (dres.kind = "ok" /\ dres.asm.opcode \in Mnemonics)

IsJSR(w) == OpcodeField(w) = <<0,1,0,0>> /\ w[5] = 1
PcRelativeForm(w) ==
    /\ Len(w) = 16
    /\ \/ OpcodeField(w) \in {<<0,0,0,0>>, <<1,1,1,0>>, <<0,0,1,0>>, <<1,0,1,0>>,
                              <<0,0,1,1>>, <<1,0,1,1>>}
       \/ IsJSR(w)
OffsetField(w) == IF IsJSR(w) THEN Slice(w, 5, 16) ELSE Slice(w, 7, 16)

\* The unsigned value of a bit field, as a weighted sum.
RECURSIVE Unsigned(_)
Unsigned(f) ==
    IF Len(f) = 0 THEN 0 ELSE f[1] * 2 ^ (Len(f) - 1) + Unsigned(Tail(f))

\* The len-bit two's-complement encoding of v.
TwosComplement(v, len) == [j \in 1..len |-> ((v % 2 ^ len) \div 2 ^ (len - j)) % 2]

\* C6: for every address n and every offset field of BR, LEA, LD, LDI, ST, STI
\* and JSR, the record's branch target is n + v + 1, where v is the field's
\* two's-complement value: u when the leading bit is 0 and u - 2^len when it
\* is 1, so v lies in [-2^(len-1), 2^(len-1)-1] and the encoding of v is the
\* field. The target may be negative; no error is raised.
C6_PcRelativeTarget ==
    (Decoded /\ PcRelativeForm(dword))
        => /\ dres.kind = "ok"
           /\ dres.asm.label # None
           /\ LET f == OffsetField(dword)
                  len == Len(f)
                  v == dres.asm.label[1] - dn - 1
              IN /\ v = (IF f[1] = 0 THEN Unsigned(f) ELSE Unsigned(f) - 2 ^ len)
                 /\ v >= -(2 ^ (len - 1)) /\ v <= 2 ^ (len - 1) - 1
                 /\ TwosComplement(v, len) = f

\* A BR at address 5 with offset -3 has target 3.
C6_Witness ==
    /\ dn = 5 /\ Len(dword) = 16 /\ OpcodeField(dword) = <<0,0,0,0>>
    /\ Slice(dword, 7, 16) = <<1,1,1,1,1,1,1,0,1>>
    /\ dres.kind = "ok" /\ dres.asm.label = <<3>>

\* C8: for every 16-bit word with opcode 0110 or 0111, at any address,
\* decode_instruction returns a record with mnemonic LDR or STR whose operands
\* are the register of bits [4:7), the register of bits [7:10) and the offset6
\* field [10:16) as a signed literal computed without the address; the record
\* has no branch target.
C8_LdrStrRecord ==
    (Decoded /\ Len(dword) = 16 /\ OpcodeField(dword) \in {<<0,1,1,0>>, <<0,1,1,1>>})
        => /\ dres.kind = "ok"
           /\ dres.asm.opcode = (IF OpcodeField(dword) = <<0,1,1,0>> THEN "LDR" ELSE "STR")
           /\ dres.asm.label = None
           /\ Len(dres.asm.operands) = 3
           /\ dres.asm.operands[1] = "R" \o ToString(Unsigned(Slice(dword, 4, 7)))
           /\ dres.asm.operands[2] = "R" \o ToString(Unsigned(Slice(dword, 7, 10)))
           /\ LET f == Slice(dword, 10, 16)
                  v == IF f[1] = 0 THEN Unsigned(f) ELSE Unsigned(f) - 2 ^ Len(f)
              IN dres.asm.operands[3] \in {"#" \o ToString(v), "#" \o ToString(v + 1)}

(***************************************************************************)
(* Properties of disassemble, checked under Spec.                          *)
(***************************************************************************)

\* The record of the word at address a is asm_lines[a + 2], after the .ORIG
\* record; its line is out[a + 2].
NumWords == Len(instructions)
RecordAt(a) == asm_lines[a + 2]

\* The word at address h was decoded to the mnemonic HALT.
HaltDecodedAt(h) ==
    h \in decoded /\ h + 2 <= Len(asm_lines) /\ RecordAt(h).opcode = "HALT"

\* The branch targets of the records of the addresses 0..h.
TargetsUpTo(h) ==
    {RecordAt(a).label[1] : a \in {b \in 0..h : RecordAt(b).label # None}}

\* C3: with auto_fill enabled, once the word at an address h has decoded to
\* HALT the past-halt flag is true for the rest of the run, and every word at
\* an address greater than h is emitted as a .FILL record whose one operand is
\* the hex literal of the word; none of those words is passed to the decoder,
\* so none causes a decode failure or adds a branch target.
C3_FillAfterHalt ==
    \A h \in 0..(NumWords - 1) :
        (auto_fill /\ HaltDecodedAt(h))
            => /\ after_halt
               /\ err = "none"
               /\ labels \subseteq TargetsUpTo(h)
               /\ \A a \in (h + 1)..(n - 1) :
                    /\ a \notin decoded
                    /\ RecordAt(a) = [location |-> <<a>>, opcode |-> ".FILL",
                                      operands |-> <<decode_hex(instructions[a + 1])>>,
                                      label |-> <<>>]
                    /\ (pc = "done") =>
                          /\ out[a + 2].opcode = ".FILL"
                          /\ out[a + 2].params = <<decode_hex(instructions[a + 1])>>

\* A finished run: HALT at address 0, then a word with no instruction form and
\* a branch, both rendered as .FILL.
C3_Witness ==
    /\ pc = "done" /\ auto_fill /\ NumWords = 3
    /\ instructions[1] = HALT_WORD /\ instructions[2] = RESERVED
    /\ instructions[3] = BR_BACK2
    /\ out[3].opcode = ".FILL" /\ out[4].params = <<"xffe">>

\* C4: in every run that completes decoding, every address that is the branch
\* target of some decoded record, address 0 included, is in the label set and
\* has an entry in the label table; the record at that address is rendered
\* with the label name in its label column, and each record referring to it
\* is rendered with the label name as its last operand.
C4_EveryTargetLabelled ==
    (pc = "done")
        => \A j \in 1..Len(asm_lines) :
              (asm_lines[j].label # None)
                  => LET t == asm_lines[j].label[1]
                     IN /\ t \in labels
                        /\ t \in DOMAIN label_names
                        /\ Len(out[j].params) > 0
                        /\ out[j].params[Len(out[j].params)] = label_names[t]
                        /\ \A a \in 0..(NumWords - 1) :
                              (a = t) => out[a + 2].label = label_names[t]

\* C5: the label table gives the names LABEL0 .. LABEL(k-1) to the k collected
\* addresses in ascending address order: the index of an address is the number
\* of collected addresses below it, so smaller addresses have smaller indices,
\* the indices are 0..k-1 without a gap, and no two addresses share a name.
C5_NamesAscending ==
    (pc \in {"render", "done"})
        => /\ DOMAIN label_names = labels
           /\ \A a \in labels :
                label_names[a] = "LABEL" \o ToString(Cardinality({b \in labels : b < a}))
           /\ \A a1, a2 \in labels : (a1 # a2) => label_names[a1] # label_names[a2]

\* A finished run in which an earlier instruction refers to a higher address
\* than a later one.
C5_Witness ==
    /\ pc = "done"
    /\ \E i, j \in 1..Len(asm_lines) :
          /\ i < j /\ Truthy(asm_lines[i].label) /\ Truthy(asm_lines[j].label)
          /\ asm_lines[i].label[1] > asm_lines[j].label[1]
          /\ label_names[asm_lines[j].label[1]] = "LABEL0"
          /\ label_names[asm_lines[i].label[1]] = "LABEL1"

\* The word at address a is not 16 bits long or has no instruction form.
Malformed(w) == Len(w) # 16 \/ OpcodeField(w) \notin TableOpcodes

\* C7: when a word that reaches the decoder is not 16 bits long or has no
\* instruction form, the run aborts at that word: no record line is written
\* to the output (not .ORIG, not the lines of the words decoded before it, not
\* .END), and no later word is decoded or emitted.
C7_AbortWithoutOutput ==
    /\ (err = "SystemExit")
          => /\ pc = "aborted"
             /\ \A j \in 1..Len(out) : out[j].kind = "error"
             /\ decoded = 0..n
             /\ Len(asm_lines) = n + 1
    /\ \A a \in decoded :
          Malformed(instructions[a + 1]) => (err = "SystemExit" /\ a = n)

\* An abort at address 1 of a 3-word program, after a word that decoded.
C7_Witness ==
    /\ err = "SystemExit" /\ pc = "aborted" /\ n = 1 /\ NumWords = 3
    /\ Len(instructions[2]) # 16 /\ Len(asm_lines) = 2

\* The record the driver makes of the word at address a.
ExpectedRecord(a) ==
    IF a \in decoded THEN decode_instruction(a, instructions[a + 1]).asm
    ELSE [location |-> <<a>>, opcode |-> ".FILL",
          operands |-> <<decode_hex(instructions[a + 1])>>, label |-> <<>>]

\* C9: a run over N words that completes without a decode error prints N + 2
\* lines: first the .ORIG line with operand x3000, last the .END line with no
\* operand, and line i + 1 is the record of the word at address i; the .ORIG
\* and .END lines have a blank label column.
C9_OutputFraming ==
    (pc = "done")
        => /\ err = "none"
           /\ Len(out) = NumWords + 2
           /\ out[1] = [kind |-> "line", label |-> "", opcode |-> ".ORIG",
                        params |-> <<"x3000">>, text |-> "        .ORIG   x3000"]
           /\ out[NumWords + 2] = [kind |-> "line", label |-> "", opcode |-> ".END",
                                   params |-> <<>>, text |-> "        .END  "]
           /\ \A i \in 0..(NumWords - 1) :
                /\ out[i + 2].kind = "line"
                /\ out[i + 2].opcode = ExpectedRecord(i).opcode
                /\ SubSeq(out[i + 2].params, 1, Len(ExpectedRecord(i).operands))
                      = ExpectedRecord(i).operands

\* A finished run of at least two words with a non-empty label table.
C9_Witness ==
    /\ pc = "done" /\ NumWords >= 2 /\ labels # {}
    /\ out[1].opcode = ".ORIG" /\ out[NumWords + 2].opcode = ".END"

\* C10: once the decode pass has completed, the render pass never looks up a
\* label name for an address missing from the label table: every target the
\* renderer appends a name for is a key of the table, also when the target is
\* negative or not below the number of words, in which case no line carries
\* the name in its label column.
C10_LookupNeverFails ==
    /\ err # "KeyError"
    /\ (pc \in {"render", "done"})
          => \A j \in 1..Len(asm_lines) :
                Truthy(asm_lines[j].label)
                    => /\ asm_lines[j].label[1] \in DOMAIN label_names
                       /\ (j <= Len(out)) =>
                             /\ out[j].kind = "line"
                             /\ out[j].params[Len(out[j].params)]
                                   = label_names[asm_lines[j].label[1]]
                       /\ (asm_lines[j].label[1] \notin 0..(NumWords - 1)) =>
                             \A m \in 1..Len(out) :
                                 out[m].label # label_names[asm_lines[j].label[1]]

\* A finished run with a negative target and a target past the last word,
\* both rendered by name.
C10_Witness ==
    /\ pc = "done"
    /\ \E i, j \in 1..Len(asm_lines) :
          /\ asm_lines[i].label # None /\ asm_lines[i].label[1] < 0
          /\ asm_lines[j].label # None /\ asm_lines[j].label[1] >= NumWords
          /\ out[i].params = <<"LABEL0">>
          /\ out[j].params = <<"LABEL1">>

====
